---- MODULE Spec2Model ----
(***************************************************************************)
(* Skill-share marketplace: the three serverless handlers (send-request,   *)
(* accept-request, complete-session), the relational store they share and  *)
(* the pages of the front-end that read and write it (conversation start,  *)
(* Messages, Dashboard, the profile-setup wizard, the protected routes).   *)
(*                                                                         *)
(* Every `await` on the store is one atomic step of a call, so calls       *)
(* interleave between any two store operations (the handlers use no        *)
(* transaction).  A store write may fail; the handler then takes the       *)
(* branch its code takes for a returned error.                             *)
(*                                                                         *)
(* Credits are counted in half credits (NUMERIC(10,2) values 0.5, 1, 3     *)
(* become 1, 2, 6) so that all arithmetic is exact integer arithmetic.     *)
(* Row ids are the positions of the rows in their tables.                  *)
(***************************************************************************)
EXTENDS Integers, Sequences, FiniteSets, TLC

\* ------------------------------------------------------------------ bounds
\* learning_requests rows created in one behaviour.
MaxRequests == 2
\* learning_requests rows created in one behaviour that goes on to accept
\* them.
MaxAcceptRequests == 1
\* Sessions created by accept-request in one behaviour.
MaxSessions == 2
\* AI sessions started in one behaviour.
MaxAiSessions == 1
\* messages rows sent from the Messages page in one behaviour.
MaxMessages == 2
\* Times the Messages page changes the conversation it shows.
MaxOpened == 3
\* Store writes that fail in one behaviour.
MaxFailures == 1

\* ------------------------------------------------------------------ values
Users == {1, 2, 3}
Slots == {1, 2}
Nil == 0
NoProfile == -1
\* A balance the call has not read.
NotRead == NoProfile - 1
\* What the Authorization header resolves to: no header, a credential that
\* names no user, or a user.
Callers ==
  {[auth |-> "none", user |-> Nil], [auth |-> "bad", user |-> Nil]}
    \cup {[auth |-> "ok", user |-> u] : u \in Users}

\* The body is parsed after authentication only: an unauthenticated call is
\* drawn with an empty body.
Body(caller, values, empty) == IF caller.auth = "ok" THEN values ELSE {empty}
\* skill_id of a send-request body: none, or a skill.
Skills == {Nil, 1}
Texts == {"hi"}
Times == {"t1"}
Durations == {Nil, 30}

\* Half credits per credit.
HalfCredits == 2
\* profiles.credits of a profile created by the setup wizard (3 credits).
InitialCredits == 3 * HalfCredits
\* Minimum balance send-request asks for (1 credit).
SendMinimum == 1 * HalfCredits
\* What the tutor of a human session earns (1 credit).
TutorReward == 1 * HalfCredits
\* accept-request: duration_minutes when the body omits it.
DefaultDuration == 60

VARIABLES
  credits,        \* profiles: user -> balance in half credits, or NoProfile
  requests,       \* learning_requests rows
  sessions,       \* sessions rows
  ledger,         \* credit_transactions rows
  conversations,  \* conversations rows
  messages,       \* messages rows
  calls,          \* the calls in flight, one per slot
  nFailures,      \* store writes failed so far
  accepted201,    \* history: requests some accept-request call returned 201 for
  returned200,    \* history: per session, how many complete-session calls returned 200
  client          \* the page a browser shows: its component state, its requests and
                  \* change events in flight

vars == <<credits, requests, sessions, ledger, conversations, messages,
          calls, nFailures, accepted201, returned200, client>>

store == <<credits, requests, sessions, ledger, conversations, messages>>

\* ------------------------------------------------------------------ helpers
\* The pair as given, without the sort.
sortedIdsUnsorted(a, b) == <<a, b>>

\* [a, b].sort() of two user ids.
sortedIds(a, b) == IF a <= b THEN <<a, b>> ELSE <<b, a>>

\* .from("conversations").select("id").eq(p1).eq(p2).single(): the id when
\* exactly one row matches, null otherwise.
MatchingConvos(pair) ==
  {i \in DOMAIN conversations :
     conversations[i].participant_1 = pair[1] /\ conversations[i].participant_2 = pair[2]}

selectConvo(pair) ==
  IF Cardinality(MatchingConvos(pair)) = 1
  THEN CHOOSE i \in MatchingConvos(pair) : TRUE
  ELSE Nil

\* CONSTRAINT unique_conversation UNIQUE (participant_1, participant_2)
unique_conversation(pair) == MatchingConvos(pair) = {}

\* const creditCost = isAiSession ? 0.5 : 1
creditCost(isAi) == IF isAi THEN 1 ELSE HalfCredits

\* The self-request check left out.
IsSelfRequestNever(user, tutor_id) == FALSE

\* if (!authHeader)
MissingAuthorization(caller) == caller.auth = "none"

\* The credential check left out.
UnauthorizedNever(caller) == FALSE

\* if (authError || !user), after the header check
Unauthorized(caller) == caller.auth # "ok"

\* send-request: if (tutor_id === user.id)
IsSelfRequest(user, tutor_id) == tutor_id = user

\* The credit check without its credits < 1 half.
InsufficientToSendNoProfileOnly(saw) == saw = NoProfile

\* send-request: if (!learnerProfile || learnerProfile.credits < 1)
InsufficientToSend(saw) == saw = NoProfile \/ saw < SendMinimum

\* The tutor check letting the learner through as well.
IsTutorOrLearner(request, user) == request.tutor_id = user \/ request.learner_id = user

\* The tutor existence check left out.
TutorNotFoundNever(tutor_id) == FALSE

\* send-request: if (!tutorProfile)
TutorNotFound(tutor_id) == credits[tutor_id] = NoProfile

\* accept-request: request.tutor_id !== user.id, negated
IsTutor(request, user) == request.tutor_id = user

\* accept-request: request.status !== "pending", negated
IsPending(request) == request.status = "pending"

\* complete-session: session.tutor_id !== user.id && session.learner_id !== user.id,
\* negated
IsParticipant(session, user) == session.tutor_id = user \/ session.learner_id = user

\* The completed check left out.
AlreadyCompletedNever(session) == FALSE

\* complete-session: session.status === "completed"
AlreadyCompleted(session) == session.status = "completed"

\* The balance check against the AI cost, whatever the session.
CannotAffordHalf(saw, isAi) == saw < creditCost(TRUE)

\* The balance check left out.
CannotAffordNever(saw, isAi) == FALSE

\* complete-session: learnerProfile.credits < creditCost
CannotAfford(saw, isAi) == saw < creditCost(isAi)

\* A store write may fail while the failure budget lasts.
CanFail == nFailures < MaxFailures

Idle == [kind |-> "idle"]

\* No page of the front-end is open.
NoPage == [page |-> "none"]

\* The sequence without its k-th element.
Without(seq, k) == SubSeq(seq, 1, k - 1) \o SubSeq(seq, k + 1, Len(seq))

IsIdle(s) == calls[s].kind = "idle"

InFlight(kind) == {s \in Slots : calls[s].kind = kind /\ calls[s].pc # "done"}

\* A call that has returned: what it answered and what it did.
Return(c, status, error) ==
  [kind |-> c.kind, pc |-> "done", user |-> c.user, arg |-> c.arg,
   status |-> status, error |-> error, saw |-> c.saw, row |-> c.row,
   writes |-> c.writes, debit |-> c.debit, paid |-> c.paid, txs |-> c.txs,
   time |-> c.time, after201 |-> c.after201, text |-> c.text, duration |-> c.duration,
   made |-> c.made, lost |-> c.lost, given |-> c.given]

\* A fresh call record.
NewCall(kind, user, arg, pc) ==
  [kind |-> kind, pc |-> pc, user |-> user, arg |-> arg, text |-> "", time |-> "",
   duration |-> Nil, status |-> 0, error |-> "", saw |-> NotRead, tsaw |-> NotRead,
   row |-> Nil,
   convo |-> Nil, writes |-> {}, debit |-> 0, paid |-> 0, txs |-> <<>>,
   after201 |-> FALSE, skill |-> Nil, made |-> Nil, lost |-> {}, given |-> Nil]

IsDone(s) == ~IsIdle(s) /\ calls[s].pc = "done"

\* A response is delivered (Retire) before any call takes its next step: the
\* delivery touches nothing the calls read, so no interleaving of store
\* operations is lost.
Delivered == \A t \in Slots : ~IsDone(t)

\* Calls take the lowest free slot.
FreeSlot(s) == Delivered /\ IsIdle(s) /\ \A t \in Slots : t < s => ~IsIdle(t)

Wrote(c, table) == [c EXCEPT !.writes = @ \cup {table}]

\* The call's write of this step returned an error.
Lost(c, step) == [c EXCEPT !.lost = @ \cup {step}]

At(s, kind, pc) == Delivered /\ calls[s].kind = kind /\ calls[s].pc = pc

\* Three signed-up users: user 1 holds the 3 credits a new profile gets,
\* user 2 holds 1 credit (a profile row can be updated by its owner and is
\* debited by completed sessions), user 3 has not set up a profile.
StartingCredits ==
  [u \in Users |->
     IF u = 1 THEN InitialCredits ELSE IF u = 2 THEN HalfCredits ELSE NoProfile]

\* The three users and an empty marketplace.
Init ==
  /\ credits = StartingCredits
  /\ requests = <<>>
  /\ sessions = <<>>
  /\ ledger = <<>>
  /\ conversations = <<>>
  /\ messages = <<>>
  /\ calls = [s \in Slots |-> Idle]
  /\ nFailures = 0
  /\ accepted201 = {}
  /\ returned200 = <<>>
  /\ client = NoPage

\* ------------------------------------------------------------------ send-request
\* Authentication, body validation, the self-request check, then the credit
\* check on the caller's profile and the existence check on the tutor's
\* (profiles are never deleted, so the second read adds no interleaving).  A
\* call that goes on to insert is started only while the table bound leaves
\* room for its row.
SendStartUpTo(s, max) ==
  /\ FreeSlot(s)
  /\ \E caller \in Callers :
     \E tutor_id \in Body(caller, {Nil} \cup Users, Nil),
        message \in Body(caller, {""} \cup Texts, ""),
        skill_id \in Body(caller, Skills, Nil) :
       LET c == [NewCall("send", caller.user, tutor_id, "insertRequest")
                   EXCEPT !.text = message, !.skill = skill_id]
           d == [c EXCEPT !.saw = credits[caller.user]]
           r == IF MissingAuthorization(caller)
                  THEN Return(c, 401, "Missing authorization header")
                ELSE IF Unauthorized(caller) THEN Return(c, 401, "Unauthorized")
                ELSE IF tutor_id = Nil \/ message = ""
                  THEN Return(c, 400, "tutor_id and message are required")
                ELSE IF IsSelfRequest(caller.user, tutor_id)
                  THEN Return(c, 400, "You cannot send a request to yourself")
                ELSE IF InsufficientToSend(d.saw)
                  THEN Return(d, 400, "Insufficient credits to send a request")
                ELSE IF TutorNotFound(tutor_id)
                  THEN Return(d, 404, "Tutor not found")
                ELSE d
       IN /\ r.pc # "done" =>
               Len(requests) + Cardinality(InFlight("send")) < max
          /\ calls' = [calls EXCEPT ![s] = r]
  /\ UNCHANGED <<store, nFailures, accepted201, returned200>>
  /\ UNCHANGED client

SendStart(s) == SendStartUpTo(s, MaxRequests)

\* The insert, had it also taken the credit the caller was checked for.
SendInsertRequestCharging(s) ==
  /\ At(s, "send", "insertRequest")
  /\ requests' = Append(requests,
         [learner_id |-> calls[s].user, tutor_id |-> calls[s].arg,
          skill_id |-> calls[s].skill, message |-> calls[s].text, status |-> "pending"])
  /\ credits' = [credits EXCEPT ![calls[s].user] = @ - SendMinimum]
  /\ calls' = [calls EXCEPT ![s] =
         [Wrote(calls[s], "learning_requests") EXCEPT !.pc = "selectConvo",
                                                      !.row = Len(requests) + 1]]
  /\ UNCHANGED <<sessions, ledger, conversations, messages, nFailures,
                 accepted201, returned200>>
  /\ UNCHANGED client

\* Create the learning request.
SendInsertRequest(s) ==
  /\ At(s, "send", "insertRequest")
  /\ LET c == calls[s] IN
     \/ /\ requests' = Append(requests,
               [learner_id |-> c.user, tutor_id |-> c.arg, skill_id |-> c.skill,
                message |-> c.text, status |-> "pending"])
        /\ calls' = [calls EXCEPT ![s] =
               [Wrote(c, "learning_requests") EXCEPT !.pc = "selectConvo",
                                                     !.row = Len(requests) + 1]]
        /\ UNCHANGED nFailures
     \/ /\ CanFail
        /\ nFailures' = nFailures + 1
        /\ calls' = [calls EXCEPT ![s] =
               Return(Lost(c, "insertRequest"), 500, "Failed to create request")]
        /\ UNCHANGED requests
  /\ UNCHANGED <<credits, sessions, ledger, conversations, messages,
                 accepted201, returned200>>
  /\ UNCHANGED client

\* Check if conversation exists.
SendSelectConvo(s) ==
  /\ At(s, "send", "selectConvo")
  /\ LET c == calls[s]
         id == selectConvo(sortedIds(c.user, c.arg)) IN
     calls' = [calls EXCEPT ![s] =
       IF id # Nil THEN [c EXCEPT !.convo = id, !.pc = "insertMessage"]
       ELSE [c EXCEPT !.pc = "insertConvo"]]
  /\ UNCHANGED <<store, nFailures, accepted201, returned200>>
  /\ UNCHANGED client

\* Insert the conversation; an error (the unique constraint among them) is
\* logged and the call answers 201 without a message.
SendInsertConvo(s) ==
  /\ At(s, "send", "insertConvo")
  /\ LET c == calls[s]
         pair == sortedIds(c.user, c.arg) IN
     \/ /\ unique_conversation(pair)
        /\ conversations' = Append(conversations,
               [participant_1 |-> pair[1], participant_2 |-> pair[2]])
        /\ calls' = [calls EXCEPT ![s] =
               [Wrote(c, "conversations") EXCEPT !.convo = Len(conversations) + 1,
                                                 !.pc = "insertMessage"]]
        /\ UNCHANGED nFailures
     \/ /\ ~unique_conversation(pair)
        /\ calls' = [calls EXCEPT ![s] = Return(c, 201, "")]
        /\ UNCHANGED <<conversations, nFailures>>
     \/ /\ CanFail
        /\ nFailures' = nFailures + 1
        /\ calls' = [calls EXCEPT ![s] = Return(Lost(c, "insertConvo"), 201, "")]
        /\ UNCHANGED conversations
  /\ UNCHANGED <<credits, requests, sessions, ledger, messages,
                 accepted201, returned200>>
  /\ UNCHANGED client

\* messages.insert(...) followed by conversations.update({last_message_at}):
\* neither result is read, and no handler reads last_message_at, which is
\* left out of the conversation rows.
PostMessage(c, content) ==
  \/ /\ messages' = Append(messages,
            [conversation_id |-> c.convo, sender_id |-> c.user,
             content |-> content, read_at |-> Nil])
     /\ UNCHANGED nFailures
  \/ /\ CanFail
     /\ nFailures' = nFailures + 1
     /\ UNCHANGED messages

\* Send initial message if conversation was created, then answer 201.
SendInsertMessage(s) ==
  /\ At(s, "send", "insertMessage")
  /\ PostMessage(calls[s], <<"Learning Request", calls[s].text>>)
  /\ calls' = [calls EXCEPT ![s] =
       Return(IF messages' # messages THEN Wrote(calls[s], "messages")
              ELSE Lost(calls[s], "insertMessage"),
              201, "")]
  /\ UNCHANGED <<credits, requests, sessions, ledger, conversations,
                 accepted201, returned200>>
  /\ UNCHANGED client

\* The steps of a call past its start.
SendRest(s) ==
  \/ SendInsertRequest(s)
  \/ SendSelectConvo(s)
  \/ SendInsertConvo(s)
  \/ SendInsertMessage(s)

SendStep(s) == SendStart(s) \/ SendRest(s)

\* ------------------------------------------------------------------ accept-request
HumanSessions == {i \in DOMAIN sessions : ~sessions[i].is_ai_session}

\* request_id values a caller may send: none, an existing id, an unknown id.
RequestIds == {Nil} \cup DOMAIN requests \cup {Len(requests) + 1}

\* Authentication, body validation (duration_minutes = 60 when omitted), then
\* fetch the request, verify the caller is its tutor and check it is pending.
AcceptStart(s) ==
  /\ FreeSlot(s)
  /\ \E caller \in Callers :
     \E request_id \in Body(caller, RequestIds, Nil),
        scheduled_at \in Body(caller, {""} \cup Times, ""),
        duration_minutes \in Body(caller, Durations, Nil) :
       LET c == [NewCall("accept", caller.user, request_id, "updateStatus")
                   EXCEPT !.time = scheduled_at,
                          !.given = duration_minutes,
                          !.duration = IF duration_minutes = Nil THEN DefaultDuration
                                       ELSE duration_minutes,
                          !.after201 = request_id \in accepted201]
           r == IF MissingAuthorization(caller)
                  THEN Return(c, 401, "Missing authorization header")
                ELSE IF Unauthorized(caller) THEN Return(c, 401, "Unauthorized")
                ELSE IF request_id = Nil \/ scheduled_at = ""
                  THEN Return(c, 400, "request_id and scheduled_at are required")
                ELSE IF request_id \notin DOMAIN requests
                  THEN Return(c, 404, "Request not found")
                ELSE IF ~IsTutor(requests[request_id], caller.user)
                  THEN Return(c, 403, "Only the tutor can accept this request")
                ELSE IF ~IsPending(requests[request_id])
                  THEN Return(c, 400, "Request is no longer pending")
                ELSE [c EXCEPT !.row = requests[request_id]]
       IN /\ r.pc # "done" =>
               Cardinality(HumanSessions) + Cardinality(InFlight("accept")) < MaxSessions
          /\ calls' = [calls EXCEPT ![s] = r]
  /\ UNCHANGED <<store, nFailures, accepted201, returned200>>
  /\ UNCHANGED client

\* Update request status (the result is not read).
AcceptUpdateStatus(s) ==
  /\ At(s, "accept", "updateStatus")
  /\ LET c == calls[s] IN
     \/ /\ requests' = [requests EXCEPT ![c.arg].status = "accepted"]
        /\ calls' = [calls EXCEPT ![s] =
               [Wrote(c, "learning_requests") EXCEPT !.pc = "insertSession"]]
        /\ UNCHANGED nFailures
     \/ /\ CanFail
        /\ nFailures' = nFailures + 1
        /\ calls' = [calls EXCEPT ![s] =
               [Lost(c, "updateStatus") EXCEPT !.pc = "insertSession"]]
        /\ UNCHANGED requests
  /\ UNCHANGED <<credits, sessions, ledger, conversations, messages,
                 accepted201, returned200>>
  /\ UNCHANGED client

\* The insert, had its error put the request back to 'pending'.
AcceptInsertSessionRollingBack(s) ==
  /\ At(s, "accept", "insertSession")
  /\ LET c == calls[s] IN
     \/ /\ sessions' = Append(sessions,
               [request_id |-> c.arg, tutor_id |-> c.row.tutor_id,
                learner_id |-> c.row.learner_id, skill_id |-> c.row.skill_id,
                scheduled_at |-> c.time,
                duration_minutes |-> c.duration, status |-> "scheduled",
                is_ai_session |-> FALSE])
        /\ returned200' = Append(returned200, 0)
        /\ calls' = [calls EXCEPT ![s] =
               [Wrote(c, "sessions") EXCEPT !.pc = "selectConvo",
                                            !.made = Len(sessions) + 1]]
        /\ UNCHANGED <<nFailures, requests>>
     \/ /\ CanFail
        /\ nFailures' = nFailures + 1
        /\ requests' = [requests EXCEPT ![c.arg].status = "pending"]
        /\ calls' = [calls EXCEPT ![s] =
               Return(Lost(c, "insertSession"), 500, "Failed to create session")]
        /\ UNCHANGED <<sessions, returned200>>
  /\ UNCHANGED <<credits, ledger, conversations, messages, accepted201>>
  /\ UNCHANGED client

\* Create session.
AcceptInsertSession(s) ==
  /\ At(s, "accept", "insertSession")
  /\ LET c == calls[s] IN
     \/ /\ sessions' = Append(sessions,
               [request_id |-> c.arg, tutor_id |-> c.row.tutor_id,
                learner_id |-> c.row.learner_id, skill_id |-> c.row.skill_id,
                scheduled_at |-> c.time,
                duration_minutes |-> c.duration, status |-> "scheduled",
                is_ai_session |-> FALSE])
        /\ returned200' = Append(returned200, 0)
        /\ calls' = [calls EXCEPT ![s] =
               [Wrote(c, "sessions") EXCEPT !.pc = "selectConvo",
                                            !.made = Len(sessions) + 1]]
        /\ UNCHANGED nFailures
     \/ /\ CanFail
        /\ nFailures' = nFailures + 1
        /\ calls' = [calls EXCEPT ![s] =
               Return(Lost(c, "insertSession"), 500, "Failed to create session")]
        /\ UNCHANGED <<sessions, returned200>>
  /\ UNCHANGED <<credits, requests, ledger, conversations, messages, accepted201>>
  /\ UNCHANGED client

\* Look the conversation of learner and tutor up; without one, answer 201.
AcceptSelectConvo(s) ==
  /\ At(s, "accept", "selectConvo")
  /\ LET c == calls[s]
         id == selectConvo(sortedIds(c.row.learner_id, c.row.tutor_id)) IN
     /\ calls' = [calls EXCEPT ![s] =
          IF id # Nil THEN [c EXCEPT !.convo = id, !.pc = "insertMessage"]
          ELSE Return(c, 201, "")]
     /\ accepted201' = IF id # Nil THEN accepted201 ELSE accepted201 \cup {c.arg}
  /\ UNCHANGED <<store, nFailures, returned200>>
  /\ UNCHANGED client

\* Send message to conversation, then answer 201.
AcceptInsertMessage(s) ==
  /\ At(s, "accept", "insertMessage")
  /\ PostMessage(calls[s], <<"Request accepted", calls[s].time>>)
  /\ calls' = [calls EXCEPT ![s] =
       Return(IF messages' # messages THEN Wrote(calls[s], "messages")
              ELSE Lost(calls[s], "insertMessage"),
              201, "")]
  /\ accepted201' = accepted201 \cup {calls[s].arg}
  /\ UNCHANGED <<credits, requests, sessions, ledger, conversations, returned200>>
  /\ UNCHANGED client

AcceptStep(s) ==
  \/ AcceptStart(s)
  \/ AcceptUpdateStatus(s)
  \/ AcceptInsertSession(s)
  \/ AcceptSelectConvo(s)
  \/ AcceptInsertMessage(s)

\* ------------------------------------------------------------------ complete-session
\* session_id values a caller may send: none, an existing id, an unknown id.
SessionIds == {Nil} \cup DOMAIN sessions \cup {Len(sessions) + 1}

\* Authentication, body validation, then fetch the session, verify the caller
\* is a participant and check the session isn't already completed.
CompleteStart(s) ==
  /\ FreeSlot(s)
  /\ \E caller \in Callers :
     \E session_id \in Body(caller, SessionIds, Nil) :
       LET c == NewCall("complete", caller.user, session_id, "readLearner") IN
       calls' = [calls EXCEPT ![s] =
         IF MissingAuthorization(caller) THEN Return(c, 401, "Missing authorization header")
         ELSE IF Unauthorized(caller) THEN Return(c, 401, "Unauthorized")
         ELSE IF session_id = Nil THEN Return(c, 400, "session_id is required")
         ELSE IF session_id \notin DOMAIN sessions THEN Return(c, 404, "Session not found")
         ELSE IF ~IsParticipant(sessions[session_id], caller.user)
           THEN Return(c, 403, "You are not a participant in this session")
         ELSE IF AlreadyCompleted(sessions[session_id])
           THEN Return([c EXCEPT !.row = sessions[session_id]], 400,
                       "Session is already completed")
         ELSE [c EXCEPT !.row = sessions[session_id]]]
  /\ UNCHANGED <<store, nFailures, accepted201, returned200>>
  /\ UNCHANGED client

\* Check learner has enough credits.
CompleteReadLearner(s) ==
  /\ At(s, "complete", "readLearner")
  /\ LET c == [calls[s] EXCEPT !.saw = credits[calls[s].row.learner_id]] IN
     calls' = [calls EXCEPT ![s] =
       IF c.saw = NoProfile THEN Return(c, 404, "Learner profile not found")
       ELSE IF CannotAfford(c.saw, c.row.is_ai_session)
         THEN Return(c, 400, "Insufficient credits")
       ELSE [c EXCEPT !.pc = "updateSession"]]
  /\ UNCHANGED <<store, nFailures, accepted201, returned200>>
  /\ UNCHANGED client

\* Update session status.
CompleteUpdateSession(s) ==
  /\ At(s, "complete", "updateSession")
  /\ LET c == calls[s] IN
     \/ /\ sessions' = [sessions EXCEPT ![c.arg].status = "completed"]
        /\ calls' = [calls EXCEPT ![s] = [Wrote(c, "sessions") EXCEPT !.pc = "deduct"]]
        /\ UNCHANGED nFailures
     \/ /\ CanFail
        /\ nFailures' = nFailures + 1
        /\ calls' = [calls EXCEPT ![s] =
               Return(Lost(c, "updateSession"), 500, "Failed to update session")]
        /\ UNCHANGED sessions
  /\ UNCHANGED <<credits, requests, ledger, conversations, messages,
                 accepted201, returned200>>
  /\ UNCHANGED client

\* The deduction as a decrement of the stored balance.
CompleteDeductAtomic(s) ==
  /\ At(s, "complete", "deduct")
  /\ LET c == calls[s]
         learner == c.row.learner_id IN
     /\ credits' = [credits EXCEPT ![learner] = @ - creditCost(c.row.is_ai_session)]
     /\ calls' = [calls EXCEPT ![s] =
            [Wrote(c, "profiles") EXCEPT
               !.debit = credits'[learner] - credits[learner],
               !.pc = IF c.row.is_ai_session THEN "insertTransactions" ELSE "readTutor"]]
  /\ UNCHANGED <<requests, sessions, ledger, conversations, messages, nFailures,
                 accepted201, returned200>>
  /\ UNCHANGED client

\* The deduction, had its error ended the call with a 500.
CompleteDeductAborting(s) ==
  /\ At(s, "complete", "deduct")
  /\ LET c == calls[s]
         learner == c.row.learner_id IN
     \/ /\ credits' = [credits EXCEPT ![learner] = c.saw - creditCost(c.row.is_ai_session)]
        /\ calls' = [calls EXCEPT ![s] =
               [Wrote(c, "profiles") EXCEPT
                  !.debit = credits'[learner] - credits[learner],
                  !.pc = IF c.row.is_ai_session THEN "insertTransactions" ELSE "readTutor"]]
        /\ UNCHANGED nFailures
     \/ /\ CanFail
        /\ nFailures' = nFailures + 1
        /\ calls' = [calls EXCEPT ![s] =
               Return(Lost(c, "deduct"), 500, "Failed to deduct credits")]
        /\ UNCHANGED credits
  /\ UNCHANGED <<requests, sessions, ledger, conversations, messages,
                 accepted201, returned200>>
  /\ UNCHANGED client

\* Deduct credits from learner: the balance read earlier minus the cost is
\* written; an error is logged only.  debit records what the write did to the
\* stored balance.
CompleteDeduct(s) ==
  /\ At(s, "complete", "deduct")
  /\ LET c == calls[s]
         learner == c.row.learner_id
         next == IF c.row.is_ai_session THEN "insertTransactions" ELSE "readTutor" IN
     \/ /\ credits' = [credits EXCEPT ![learner] = c.saw - creditCost(c.row.is_ai_session)]
        /\ calls' = [calls EXCEPT ![s] =
               [Wrote(c, "profiles") EXCEPT !.debit = credits'[learner] - credits[learner],
                                            !.pc = next]]
        /\ UNCHANGED nFailures
     \/ /\ CanFail
        /\ nFailures' = nFailures + 1
        /\ calls' = [calls EXCEPT ![s] = [Lost(c, "deduct") EXCEPT !.pc = next]]
        /\ UNCHANGED credits
  /\ UNCHANGED <<requests, sessions, ledger, conversations, messages,
                 accepted201, returned200>>
  /\ UNCHANGED client

\* Human sessions: read the tutor's balance.
CompleteReadTutor(s) ==
  /\ At(s, "complete", "readTutor")
  /\ LET c == [calls[s] EXCEPT !.tsaw = credits[calls[s].row.tutor_id]] IN
     calls' = [calls EXCEPT ![s] =
       [c EXCEPT !.pc = IF c.tsaw = NoProfile THEN "insertTransactions" ELSE "creditTutor"]]
  /\ UNCHANGED <<store, nFailures, accepted201, returned200>>
  /\ UNCHANGED client

\* Add credits to tutor: the balance read plus one credit is written (the
\* result is not read).  paid records what the write did to the stored balance.
CompleteCreditTutor(s) ==
  /\ At(s, "complete", "creditTutor")
  /\ LET c == calls[s]
         tutor == c.row.tutor_id IN
     \/ /\ credits' = [credits EXCEPT ![tutor] = c.tsaw + TutorReward]
        /\ calls' = [calls EXCEPT ![s] =
               [Wrote(c, "profiles") EXCEPT !.paid = credits'[tutor] - credits[tutor],
                                            !.pc = "insertTransactions"]]
        /\ UNCHANGED nFailures
     \/ /\ CanFail
        /\ nFailures' = nFailures + 1
        /\ calls' = [calls EXCEPT ![s] =
               [Lost(c, "creditTutor") EXCEPT !.pc = "insertTransactions"]]
        /\ UNCHANGED credits
  /\ UNCHANGED <<requests, sessions, ledger, conversations, messages,
                 accepted201, returned200>>
  /\ UNCHANGED client

\* The learner's row with the cost as a positive amount.
LearnerTransactionUnsigned(c) ==
  [user_id |-> c.row.learner_id, amount |-> creditCost(c.row.is_ai_session),
   type |-> IF c.row.is_ai_session THEN "ai_session" ELSE "learning",
   session_id |-> c.arg]

\* The credit_transactions rows of a completed session: the learner's debit
\* and, for a human session, the tutor's credit.
LearnerTransaction(c) ==
  [user_id |-> c.row.learner_id, amount |-> 0 - creditCost(c.row.is_ai_session),
   type |-> IF c.row.is_ai_session THEN "ai_session" ELSE "learning",
   session_id |-> c.arg]

TutorTransaction(c) ==
  [user_id |-> c.row.tutor_id, amount |-> TutorReward, type |-> "teaching",
   session_id |-> c.arg]

\* The rows, instead of being added, become the table.
ReplaceTransactions(rows) == rows

\* .from("credit_transactions").insert(...): the rows are added after those
\* the table holds.
AppendTransactions(rows) == ledger \o rows

\* Create credit transaction records (no result is read; nothing reads the
\* ledger between the two inserts), then answer 200.
CompleteInsertTransactions(s) ==
  /\ At(s, "complete", "insertTransactions")
  /\ LET c == calls[s]
         wanted == IF c.row.is_ai_session THEN <<LearnerTransaction(c)>>
                   ELSE <<LearnerTransaction(c), TutorTransaction(c)>> IN
     \E lost \in SUBSET DOMAIN wanted :
       LET kept == SelectSeq(wanted, LAMBDA t : \A i \in lost : wanted[i] # t)
           ids == [i \in 1..Len(kept) |-> Len(ledger) + i] IN
       /\ nFailures + Cardinality(lost) <= MaxFailures
       /\ nFailures' = nFailures + Cardinality(lost)
       /\ ledger' = AppendTransactions(kept)
       /\ calls' = [calls EXCEPT ![s] =
            Return([(IF kept # <<>> THEN Wrote(c, "credit_transactions") ELSE c)
                      EXCEPT !.txs = ids,
                             !.lost = @ \cup (IF lost = {} THEN {} ELSE {"insertTransactions"})],
                   200, "")]
       /\ returned200' = [returned200 EXCEPT ![c.arg] = @ + 1]
  /\ UNCHANGED <<credits, requests, sessions, conversations, messages, accepted201>>
  /\ UNCHANGED client

CompleteStep(s) ==
  \/ CompleteStart(s)
  \/ CompleteReadLearner(s)
  \/ CompleteUpdateSession(s)
  \/ CompleteDeduct(s)
  \/ CompleteReadTutor(s)
  \/ CompleteCreditTutor(s)
  \/ CompleteInsertTransactions(s)

\* ------------------------------------------------------------------ AI sessions
\* A user with a profile starts an AI session: a sessions row with
\* is_ai_session = true and the user as both parties.
StartAiSession(u) ==
  /\ Delivered
  /\ credits[u] # NoProfile
  /\ Cardinality(DOMAIN sessions \ HumanSessions) < MaxAiSessions
  /\ sessions' = Append(sessions,
         [request_id |-> Nil, tutor_id |-> u, learner_id |-> u, skill_id |-> Nil,
          scheduled_at |-> "t1",
          duration_minutes |-> DefaultDuration, status |-> "scheduled",
          is_ai_session |-> TRUE])
  /\ returned200' = Append(returned200, 0)
  /\ UNCHANGED <<credits, requests, ledger, conversations, messages, calls,
                 nFailures, accepted201>>
  /\ UNCHANGED client

\* ------------------------------------------------------------------ cancellation
\* "Participants can update sessions": a participant sets the status of a
\* session to 'cancelled', one of the four values the column accepts.
CancelSession(u, i) ==
  /\ Delivered
  /\ i \in DOMAIN sessions
  /\ IsParticipant(sessions[i], u)
  /\ sessions[i].status # "cancelled"
  /\ sessions' = [sessions EXCEPT ![i].status = "cancelled"]
  /\ UNCHANGED <<credits, requests, ledger, conversations, messages, calls,
                 nFailures, accepted201, returned200>>
  /\ UNCHANGED client

\* ------------------------------------------------------------------ TutorProfile page
\* handleStartConversation, offered on another user's profile only: look the
\* conversation up and go to /messages when it exists.
StartConversationSelect(s) ==
  /\ FreeSlot(s)
  /\ \E user \in Users, tutor \in Users :
       /\ credits[user] # NoProfile /\ credits[tutor] # NoProfile
       /\ tutor # user
       /\ LET c == NewCall("startConversation", user, tutor, "insertConvo") IN
          calls' = [calls EXCEPT ![s] =
            IF selectConvo(sortedIds(user, tutor)) # Nil THEN Return(c, 0, "") ELSE c]
  /\ UNCHANGED <<store, nFailures, accepted201, returned200>>
  /\ UNCHANGED client

\* Create conversation (the result is not read), then go to /messages.
StartConversationInsert(s) ==
  /\ At(s, "startConversation", "insertConvo")
  /\ LET c == calls[s]
         pair == sortedIds(c.user, c.arg) IN
     \/ /\ unique_conversation(pair)
        /\ conversations' = Append(conversations,
               [participant_1 |-> pair[1], participant_2 |-> pair[2]])
        /\ calls' = [calls EXCEPT ![s] = Return(Wrote(c, "conversations"), 0, "")]
        /\ UNCHANGED nFailures
     \/ /\ ~unique_conversation(pair)
        /\ calls' = [calls EXCEPT ![s] = Return(c, 0, "")]
        /\ UNCHANGED <<conversations, nFailures>>
     \/ /\ CanFail
        /\ nFailures' = nFailures + 1
        /\ calls' = [calls EXCEPT ![s] = Return(Lost(c, "insertConvo"), 0, "")]
        /\ UNCHANGED conversations
  /\ UNCHANGED <<credits, requests, sessions, ledger, messages,
                 accepted201, returned200>>
  /\ UNCHANGED client

StartConversationStep(s) ==
  \/ StartConversationSelect(s)
  \/ StartConversationInsert(s)

\* The response has been delivered; the slot is free again.
Retire(s) ==
  /\ IsDone(s)
  /\ calls' = [calls EXCEPT ![s] = Idle]
  /\ UNCHANGED <<store, nFailures, accepted201, returned200>>
  /\ UNCHANGED client

\* ------------------------------------------------------------------ Messages page (useMessages)
\* What a user types into the message box.
Typed == {"", " ", "hi", " hi "}

\* content.trim()
Trim(content) ==
  CASE content = " " -> ""
    [] content = " hi " -> "hi"
    [] OTHER -> content

\* The conversations a user takes part in.
ConversationsOf(u) ==
  {i \in DOMAIN conversations :
     conversations[i].participant_1 = u \/ conversations[i].participant_2 = u}

\* A messages row as a query or a change event hands it to the client.
MessageRow(i) == [id |-> i] @@ messages[i]

\* .from("messages").select("*").eq("conversation_id", conversationId)
\*   .order("created_at", { ascending: true })
selectMessages(conversationId) ==
  LET ids == {i \in DOMAIN messages : messages[i].conversation_id = conversationId}
      nth[n \in 0..Cardinality(ids)] ==
        IF n = 0 THEN <<>>
        ELSE LET rest == nth[n - 1]
                 taken == {rest[k].id : k \in DOMAIN rest}
                 next == CHOOSE i \in ids \ taken : \A j \in ids \ taken : i <= j
             IN Append(rest, MessageRow(next))
  IN nth[Cardinality(ids)]

\* The mark-read filter without its .is("read_at", null).
UnreadOrRead(conversationId, user) ==
  {i \in DOMAIN messages :
     messages[i].conversation_id = conversationId /\ messages[i].sender_id # user}

\* .eq("conversation_id", conversationId).neq("sender_id", user.id).is("read_at", null)
Unread(conversationId, user) ==
  {i \in DOMAIN messages :
     /\ messages[i].conversation_id = conversationId
     /\ messages[i].sender_id # user
     /\ messages[i].read_at = Nil}

OnMessages == client.page = "messages"

\* The Messages page of a signed-in user, no conversation selected:
\* useState([]) and useState(true); the effect has run fetchMessages, which
\* returned at once, and subscribed to nothing.  now is the client's clock.
MessagesPage(user) ==
  [page |-> "messages", user |-> user, conversationId |-> Nil, messages |-> <<>>,
   loading |-> TRUE, fetches |-> <<>>, channel |-> Nil, events |-> <<>>,
   now |-> 1, opened |-> 0]

\* The page sets selectedConvoId (a conversation of the list, or null with
\* the back button).  The effect of useMessages runs again: its cleanup
\* removes the channel, fetchMessages starts (and returns at once without a
\* conversation), and the page subscribes to the INSERTs of the conversation.
SelectConversation(conversationId) ==
  /\ OnMessages
  /\ conversationId \in {Nil} \cup ConversationsOf(client.user)
  /\ conversationId # client.conversationId
  /\ client.opened < MaxOpened
  /\ client' = [client EXCEPT
         !.conversationId = conversationId,
         !.opened = @ + 1,
         !.loading = IF conversationId = Nil THEN @ ELSE TRUE,
         !.fetches = IF conversationId = Nil THEN @
                     ELSE Append(@, [conversationId |-> conversationId, pc |-> "select",
                                     at |-> Nil]),
         !.channel = conversationId,
         !.events = <<>>]
  /\ UNCHANGED <<store, calls, nFailures, accepted201, returned200>>

\* fetchMessages, the select: its rows become the list, loading ends, and
\* the mark-read update is sent with the client's time.
FetchMessagesSelect(k) ==
  /\ OnMessages
  /\ k \in DOMAIN client.fetches
  /\ client.fetches[k].pc = "select"
  /\ client' = [client EXCEPT
         !.messages = selectMessages(client.fetches[k].conversationId),
         !.loading = FALSE,
         !.fetches[k] = [@ EXCEPT !.pc = "update", !.at = client.now],
         !.now = @ + 1]
  /\ UNCHANGED <<store, calls, nFailures, accepted201, returned200>>

\* fetchMessages, the update: mark messages as read (the result is not read).
FetchMessagesUpdate(k) ==
  /\ OnMessages
  /\ k \in DOMAIN client.fetches
  /\ client.fetches[k].pc = "update"
  /\ LET f == client.fetches[k] IN
     \/ /\ messages' = [i \in DOMAIN messages |->
               IF i \in Unread(f.conversationId, client.user)
               THEN [messages[i] EXCEPT !.read_at = f.at] ELSE messages[i]]
        /\ UNCHANGED nFailures
     \/ /\ CanFail
        /\ nFailures' = nFailures + 1
        /\ UNCHANGED messages
  /\ client' = [client EXCEPT !.fetches = Without(@, k)]
  /\ UNCHANGED <<credits, requests, sessions, ledger, conversations, calls,
                 accepted201, returned200>>

\* sendMessage of a user's useMessages with the conversation it shows (for
\* the user of this page, the conversation selected here): nothing without a
\* conversation or with blank content; else the insert, which the change feed
\* hands to the page when its channel filters on that conversation.
sendMessage(user, conversationId, content) ==
  /\ OnMessages
  /\ conversationId \in {Nil} \cup ConversationsOf(user)
  /\ user = client.user => conversationId = client.conversationId
  /\ IF conversationId = Nil \/ Trim(content) = ""
     THEN UNCHANGED <<messages, nFailures, client>>
     ELSE \/ /\ Len(messages) < MaxMessages
             /\ messages' = Append(messages,
                    [conversation_id |-> conversationId, sender_id |-> user,
                     content |-> <<Trim(content)>>, read_at |-> Nil])
             /\ client' = [client EXCEPT !.events =
                    IF client.channel = conversationId
                    THEN Append(@, [id |-> Len(messages) + 1] @@ messages'[Len(messages) + 1])
                    ELSE @]
             /\ UNCHANGED nFailures
          \/ /\ CanFail
             /\ nFailures' = nFailures + 1
             /\ UNCHANGED <<messages, client>>
  /\ UNCHANGED <<credits, requests, sessions, ledger, conversations, calls,
                 accepted201, returned200>>

\* The INSERT callback of the channel: setMessages((prev) => [...prev, payload.new])
ReceiveInsert ==
  /\ OnMessages
  /\ client.events # <<>>
  /\ client' = [client EXCEPT !.messages = Append(@, Head(client.events)),
                               !.events = Tail(@)]
  /\ UNCHANGED <<store, calls, nFailures, accepted201, returned200>>

\* ------------------------------------------------------------------ Dashboard page (useRequests)
\* .from("learning_requests").select(...).eq("tutor_id", user.id).eq("status", "pending"):
\* the rows by their ids (the order of the list is left out).
selectIncoming(user) ==
  {i \in DOMAIN requests : requests[i].tutor_id = user /\ requests[i].status = "pending"}

\* .from("learning_requests").select(...).eq("learner_id", user.id).eq("status", "pending")
selectOutgoing(user) ==
  {i \in DOMAIN requests : requests[i].learner_id = user /\ requests[i].status = "pending"}

\* The changes of learning_requests the change feed has to tell: the INSERT of
\* each row and the UPDATE of each row that has left 'pending' (one handler
\* call at a time updates a row once).
Changes == Len(requests) + Cardinality({i \in DOMAIN requests : requests[i].status # "pending"})

OnDashboard == client.page = "dashboard"

\* A fetchRequests call that has just started.
StartedFetch == [pc |-> "selectIncoming", incoming |-> {}, outgoing |-> {}]

\* The Dashboard of a signed-in user once the effect of useRequests has run:
\* both lists empty, loading, the first fetchRequests under way and the page
\* subscribed to every change of learning_requests; delivered counts the
\* changes the subscription has been told.
DashboardPage(user) ==
  [page |-> "dashboard", user |-> user, incomingRequests |-> {}, outgoingRequests |-> {},
   loading |-> TRUE, fetches |-> <<StartedFetch>>, delivered |-> 0]

\* The subscription callback: a change is delivered and fetchRequests runs.
ReceiveChange ==
  /\ OnDashboard
  /\ client.delivered < Changes
  /\ client' = [client EXCEPT !.delivered = @ + 1,
                               !.loading = TRUE,
                               !.fetches = Append(@, StartedFetch)]
  /\ UNCHANGED <<store, calls, nFailures, accepted201, returned200>>

\* fetchRequests from setOutgoingRequests on: with no outgoing row the list
\* is emptied and the call ends, else the tutors' profiles are fetched first.
SetOutgoing(c, k) ==
  IF c.fetches[k].outgoing # {}
  THEN [c EXCEPT !.fetches[k].pc = "tutorProfiles"]
  ELSE [c EXCEPT !.outgoingRequests = {}, !.loading = FALSE,
                 !.fetches = Without(@, k)]

\* fetchRequests: fetch incoming requests (where user is tutor).
FetchRequestsIncoming(k) ==
  /\ OnDashboard
  /\ k \in DOMAIN client.fetches
  /\ client.fetches[k].pc = "selectIncoming"
  /\ client' = [client EXCEPT !.fetches[k] =
         [@ EXCEPT !.incoming = selectIncoming(client.user), !.pc = "selectOutgoing"]]
  /\ UNCHANGED <<store, calls, nFailures, accepted201, returned200>>

\* fetchRequests: fetch outgoing requests (where user is learner); with no
\* incoming row the incoming list is emptied at once, else the learners'
\* profiles are fetched first.
FetchRequestsOutgoing(k) ==
  /\ OnDashboard
  /\ k \in DOMAIN client.fetches
  /\ client.fetches[k].pc = "selectOutgoing"
  /\ LET c == [client EXCEPT !.fetches[k].outgoing = selectOutgoing(client.user)] IN
     client' = IF c.fetches[k].incoming # {}
               THEN [c EXCEPT !.fetches[k].pc = "learnerProfiles"]
               ELSE SetOutgoing([c EXCEPT !.incomingRequests = {}], k)
  /\ UNCHANGED <<store, calls, nFailures, accepted201, returned200>>

\* fetchRequests: the learners' profiles have come, setIncomingRequests.
FetchRequestsLearnerProfiles(k) ==
  /\ OnDashboard
  /\ k \in DOMAIN client.fetches
  /\ client.fetches[k].pc = "learnerProfiles"
  /\ client' = SetOutgoing([client EXCEPT !.incomingRequests = client.fetches[k].incoming], k)
  /\ UNCHANGED <<store, calls, nFailures, accepted201, returned200>>

\* fetchRequests: the tutors' profiles have come, setOutgoingRequests and
\* setLoading(false).
FetchRequestsTutorProfiles(k) ==
  /\ OnDashboard
  /\ k \in DOMAIN client.fetches
  /\ client.fetches[k].pc = "tutorProfiles"
  /\ client' = [client EXCEPT !.outgoingRequests = client.fetches[k].outgoing,
                               !.loading = FALSE,
                               !.fetches = Without(@, k)]
  /\ UNCHANGED <<store, calls, nFailures, accepted201, returned200>>

\* ------------------------------------------------------------------ ProfileSetup page
\* The seeded skills.
AllSkills == {1, 2}

\* What the user types as a name.
Names == {"", "A", "Al"}

\* z.string().trim().min(2), and values.name.trim().length < 2 negated
ValidName(name) == name = "Al"

\* prev.includes(skillId) ? prev.filter((id) => id !== skillId) : [...prev, skillId]
toggle(prev, skillId) ==
  IF \E n \in DOMAIN prev : prev[n] = skillId
  THEN SelectSeq(prev, LAMBDA id : id # skillId)
  ELSE Append(prev, skillId)

\* The ids of a list of skills.
Ids(list) == {list[n] : n \in DOMAIN list}

OnProfileSetup == client.page = "profile-setup" /\ client.pc # "done"

\* The wizard as it opens for a signed-in user without a profile: step 1, an
\* empty form, no skill chosen.  user_teach_skills and user_learn_skills are
\* the skill ids of the junction rows the user has.
ProfileSetupPage(user) ==
  [page |-> "profile-setup", user |-> user, pc |-> "form", step |-> 1, name |-> "",
   teachSkills |-> <<>>, learnSkills |-> <<>>, isSubmitting |-> FALSE,
   submitted |-> [teachSkills |-> <<>>, learnSkills |-> <<>>],
   user_teach_skills |-> {}, user_learn_skills |-> {}]

\* Step 1: the name field.
TypeName(name) ==
  /\ OnProfileSetup
  /\ client.step = 1
  /\ name # client.name
  /\ client' = [client EXCEPT !.name = name]
  /\ UNCHANGED <<store, calls, nFailures, accepted201, returned200>>

\* Step 2 offers every skill and the chips of the chosen ones.
toggleTeachSkill(skillId) ==
  /\ OnProfileSetup
  /\ client.step = 2
  /\ skillId \in AllSkills
  /\ client' = [client EXCEPT !.teachSkills = toggle(@, skillId)]
  /\ UNCHANGED <<store, calls, nFailures, accepted201, returned200>>

\* Step 3 offers the skills that are not teach skills, and the chips of the
\* chosen learn skills.
toggleLearnSkill(skillId) ==
  /\ OnProfileSetup
  /\ client.step = 3
  /\ skillId \in (AllSkills \ Ids(client.teachSkills)) \cup Ids(client.learnSkills)
  /\ client' = [client EXCEPT !.learnSkills = toggle(@, skillId)]
  /\ UNCHANGED <<store, calls, nFailures, accepted201, returned200>>

\* The Back button.
Back ==
  /\ OnProfileSetup
  /\ client.step > 1
  /\ client' = [client EXCEPT !.step = @ - 1]
  /\ UNCHANGED <<store, calls, nFailures, accepted201, returned200>>

\* The Continue button is disabled.
ContinueDisabled ==
  \/ client.isSubmitting
  \/ client.step = 2 /\ client.teachSkills = <<>>
  \/ client.step = 3 /\ client.learnSkills = <<>>

\* The Continue button on steps 1 and 2: step 1 moves on when the form is
\* valid.
Continue ==
  /\ OnProfileSetup
  /\ ~ContinueDisabled
  /\ client.step < 3
  /\ client.step = 1 => ValidName(client.name)
  /\ client' = [client EXCEPT !.step = @ + 1]
  /\ UNCHANGED <<store, calls, nFailures, accepted201, returned200>>

\* The button on step 3, handleSubmit up to the first insert: the checks,
\* then setIsSubmitting(true) with the lists as they are now.
handleSubmit ==
  /\ OnProfileSetup
  /\ ~ContinueDisabled
  /\ client.step = 3
  /\ client' =
       IF ~ValidName(client.name) THEN [client EXCEPT !.step = 1]
       ELSE IF client.teachSkills = <<>> THEN [client EXCEPT !.step = 2]
       ELSE IF client.learnSkills = <<>> THEN [client EXCEPT !.step = 3]
       ELSE [client EXCEPT !.isSubmitting = TRUE, !.pc = "insertProfile",
                           !.submitted = [teachSkills |-> client.teachSkills,
                                          learnSkills |-> client.learnSkills]]
  /\ UNCHANGED <<store, calls, nFailures, accepted201, returned200>>

\* catch and finally of handleSubmit: the wizard stays open.
SetupFailed == [client EXCEPT !.isSubmitting = FALSE, !.pc = "form"]

\* handleSubmit: create profile (user_id is UNIQUE) with 3 credits.
SubmitProfile ==
  /\ OnProfileSetup
  /\ client.pc = "insertProfile"
  /\ \/ /\ credits[client.user] = NoProfile
        /\ credits' = [credits EXCEPT ![client.user] = InitialCredits]
        /\ client' = [client EXCEPT !.pc = "insertTeachSkills"]
        /\ UNCHANGED nFailures
     \/ /\ credits[client.user] # NoProfile
        /\ client' = SetupFailed
        /\ UNCHANGED <<credits, nFailures>>
     \/ /\ CanFail
        /\ nFailures' = nFailures + 1
        /\ client' = SetupFailed
        /\ UNCHANGED credits
  /\ UNCHANGED <<requests, sessions, ledger, conversations, messages, calls,
                 accepted201, returned200>>

\* handleSubmit: insert teach skills.
SubmitTeachSkills ==
  /\ OnProfileSetup
  /\ client.pc = "insertTeachSkills"
  /\ \/ /\ client' = [client EXCEPT
               !.user_teach_skills = @ \cup Ids(client.submitted.teachSkills),
               !.pc = "insertLearnSkills"]
        /\ UNCHANGED nFailures
     \/ /\ CanFail
        /\ nFailures' = nFailures + 1
        /\ client' = SetupFailed
  /\ UNCHANGED <<store, calls, accepted201, returned200>>

\* handleSubmit: insert learn skills, then refreshProfile and navigate("/").
SubmitLearnSkills ==
  /\ OnProfileSetup
  /\ client.pc = "insertLearnSkills"
  /\ \/ /\ client' = [client EXCEPT
               !.user_learn_skills = @ \cup Ids(client.submitted.learnSkills),
               !.isSubmitting = FALSE,
               !.pc = "done"]
        /\ UNCHANGED nFailures
     \/ /\ CanFail
        /\ nFailures' = nFailures + 1
        /\ client' = SetupFailed
  /\ UNCHANGED <<store, calls, accepted201, returned200>>

\* ------------------------------------------------------------------ routes (ProtectedRoute)
\* The routes whose element is wrapped in ProtectedRoute.
Protected == {"/profile-setup", "/", "/search", "/tutor/:name", "/messages", "/history",
              "/profile"}

\* The route table: the protected routes, /auth and the catch-all.
Paths == Protected \cup {"/auth", "*"}

\* requireProfile = true unless the route says otherwise: /profile-setup.
requireProfileOf(path) == path # "/profile-setup"

\* What useAuth gives: loading, the user or null, whether a profile is there.
AuthStates ==
  {a \in [loading : BOOLEAN, user : {Nil} \cup Users, profile : BOOLEAN] :
     a.profile => a.user # Nil}

\* ProtectedRoute without its profile check.
ProtectedRouteAnyProfile(requireProfile, auth) ==
  IF auth.loading THEN "loading"
  ELSE IF auth.user = Nil THEN "/auth"
  ELSE "children"

\* ProtectedRoute: the placeholder while loading, <Navigate to="/auth"> without
\* a user, <Navigate to="/profile-setup"> without a required profile, else
\* the children.
ProtectedRoute(requireProfile, auth) ==
  IF auth.loading THEN "loading"
  ELSE IF auth.user = Nil THEN "/auth"
  ELSE IF requireProfile /\ ~auth.profile THEN "/profile-setup"
  ELSE "children"

\* What the route of a path renders.
Render(path, auth) ==
  IF path \in Protected THEN ProtectedRoute(requireProfileOf(path), auth) ELSE "page"

OnRoute == client.page = "route"

\* The application at a path.
RoutePage(path, auth) ==
  [page |-> "route", path |-> path, auth |-> auth, rendered |-> Render(path, auth)]

\* The auth context changes (sign-in, sign-out, profile loaded) and the route
\* renders again.
AuthChange(auth) ==
  /\ OnRoute
  /\ auth # client.auth
  /\ client' = RoutePage(client.path, auth)
  /\ UNCHANGED <<store, calls, nFailures, accepted201, returned200>>

\* The user goes to a path.
GoTo(path) ==
  /\ OnRoute
  /\ path # client.path
  /\ client' = RoutePage(path, client.auth)
  /\ UNCHANGED <<store, calls, nFailures, accepted201, returned200>>

\* <Navigate to=... replace />: the rendered redirect is followed.
FollowNavigate ==
  /\ OnRoute
  /\ client.rendered \in {"/auth", "/profile-setup"}
  /\ client' = RoutePage(client.rendered, client.auth)
  /\ UNCHANGED <<store, calls, nFailures, accepted201, returned200>>

\* ------------------------------------------------------------------ specifications
\* All handlers and the client, one call at a time.
Next ==
  \/ SendStartUpTo(1, MaxAcceptRequests)
  \/ SendRest(1)
  \/ AcceptStep(1)
  \/ CompleteStep(1)
  \/ StartConversationStep(1)
  \/ Retire(1)
  \/ \E u \in Users : StartAiSession(u)

Spec == Init /\ [][Next]_vars

\* Concurrent send-request and handleStartConversation calls.
SendNext ==
  \E s \in Slots :
    \/ SendStep(s)
    \/ StartConversationStep(s)
    \/ Retire(s)

SendSpec == Init /\ [][SendNext]_vars

\* Concurrent send-request calls and nothing else.
SendOnlyNext ==
  \E s \in Slots :
    \/ SendStep(s)
    \/ Retire(s)

SendOnlySpec == Init /\ [][SendOnlyNext]_vars

\* Concurrent accept-request calls on requests made by send-request.
AcceptNext ==
  \E s \in Slots :
    \/ SendStartUpTo(s, MaxAcceptRequests)
    \/ SendRest(s)
    \/ AcceptStep(s)
    \/ Retire(s)

AcceptSpec == Init /\ [][AcceptNext]_vars

\* The store once a request of one profiled user to the other has been sent
\* and accepted.
CompleteInit ==
  \E learner \in {1, 2} :
    LET tutor == 3 - learner IN
    /\ credits = StartingCredits
    /\ requests = <<[learner_id |-> learner, tutor_id |-> tutor, skill_id |-> Nil,
                     message |-> "hi", status |-> "accepted"]>>
    /\ sessions = <<[request_id |-> 1, tutor_id |-> tutor, learner_id |-> learner,
                     skill_id |-> Nil, scheduled_at |-> "t1", duration_minutes |-> DefaultDuration,
                     status |-> "scheduled", is_ai_session |-> FALSE]>>
    /\ ledger = <<>>
    /\ conversations = <<[participant_1 |-> 1, participant_2 |-> 2]>>
    /\ messages = <<[conversation_id |-> 1, sender_id |-> learner,
                     content |-> <<"Learning Request", "hi">>, read_at |-> Nil],
                    [conversation_id |-> 1, sender_id |-> tutor,
                     content |-> <<"Request accepted", "t1">>, read_at |-> Nil]>>
    /\ calls = [s \in Slots |-> Idle]
    /\ nFailures = 0
    /\ accepted201 = {1}
    /\ returned200 = <<0>>
    /\ client = NoPage

\* Concurrent complete-session calls on human and AI sessions.
CompleteNext ==
  \/ \E s \in Slots :
       \/ CompleteStep(s)
       \/ Retire(s)
  \/ \E u \in Users : StartAiSession(u)

CompleteSpec == CompleteInit /\ [][CompleteNext]_vars

\* The store once user 2, who holds 1 credit, has sent two requests to user 1
\* (send-request checks the credit and takes none) and user 1 has accepted
\* both: two human sessions of one learner whose balance pays for one.
RaceInit ==
  /\ credits = StartingCredits
  /\ requests = [r \in 1..2 |->
                   [learner_id |-> 2, tutor_id |-> 1, skill_id |-> Nil, message |-> "hi",
                    status |-> "accepted"]]
  /\ sessions = [i \in 1..2 |->
                   [request_id |-> i, tutor_id |-> 1, learner_id |-> 2, skill_id |-> Nil,
                    scheduled_at |-> "t1", duration_minutes |-> DefaultDuration,
                    status |-> "scheduled", is_ai_session |-> FALSE]]
  /\ ledger = <<>>
  /\ conversations = <<[participant_1 |-> 1, participant_2 |-> 2]>>
  /\ messages = [m \in 1..4 |->
                   IF m <= 2
                   THEN [conversation_id |-> 1, sender_id |-> 2,
                         content |-> <<"Learning Request", "hi">>, read_at |-> Nil]
                   ELSE [conversation_id |-> 1, sender_id |-> 1,
                         content |-> <<"Request accepted", "t1">>, read_at |-> Nil]]
  /\ calls = [s \in Slots |-> Idle]
  /\ nFailures = 0
  /\ accepted201 = {1, 2}
  /\ returned200 = <<0, 0>>
  /\ client = NoPage

\* Concurrent complete-session calls on the two sessions.
RaceNext ==
  \E s \in Slots :
    \/ CompleteStep(s)
    \/ Retire(s)

RaceSpec == RaceInit /\ [][RaceNext]_vars

\* complete-session calls, one at a time, on a session its participants may
\* cancel.
CancelNext ==
  \/ CompleteStep(1)
  \/ Retire(1)
  \/ \E u \in Users, i \in DOMAIN sessions : CancelSession(u, i)
  \/ \E u \in Users : StartAiSession(u)

CancelSpec == CompleteInit /\ [][CancelNext]_vars

\* Every user has set a profile up; user 1 has a conversation with user 2 and
\* one with user 3 (handleStartConversation), nothing has been sent yet, and
\* user 1 or user 2 opens the Messages page.
MessagesInit ==
  /\ credits = [u \in Users |-> InitialCredits]
  /\ requests = <<>>
  /\ sessions = <<>>
  /\ ledger = <<>>
  /\ conversations = <<[participant_1 |-> 1, participant_2 |-> 2],
                       [participant_1 |-> 1, participant_2 |-> 3]>>
  /\ messages = <<>>
  /\ calls = [s \in Slots |-> Idle]
  /\ nFailures = 0
  /\ accepted201 = {}
  /\ returned200 = <<>>
  /\ \E user \in {1, 2} : client = MessagesPage(user)

\* The Messages page and the messages the users send each other.
MessagesNext ==
  \/ \E conversationId \in {Nil} \cup DOMAIN conversations :
       SelectConversation(conversationId)
  \/ \E k \in 1..MaxOpened : FetchMessagesSelect(k)
  \/ \E k \in 1..MaxOpened : FetchMessagesUpdate(k)
  \/ \E user \in Users, conversationId \in {Nil} \cup DOMAIN conversations,
        content \in Typed : sendMessage(user, conversationId, content)
  \/ ReceiveInsert

MessagesSpec == MessagesInit /\ [][MessagesNext]_vars

\* An empty marketplace; user 1 or user 2 has the Dashboard open.
DashboardInit ==
  /\ credits = StartingCredits
  /\ requests = <<>>
  /\ sessions = <<>>
  /\ ledger = <<>>
  /\ conversations = <<>>
  /\ messages = <<>>
  /\ calls = [s \in Slots |-> Idle]
  /\ nFailures = 0
  /\ accepted201 = {}
  /\ returned200 = <<>>
  /\ \E user \in {1, 2} : client = DashboardPage(user)

\* The most fetchRequests calls under way at once: the first and one per
\* change.
MaxFetches == 1 + 2 * MaxAcceptRequests

\* send-request and accept-request calls, one at a time, and the Dashboard.
DashboardNext ==
  \/ SendStartUpTo(1, MaxAcceptRequests)
  \/ SendRest(1)
  \/ AcceptStep(1)
  \/ Retire(1)
  \/ ReceiveChange
  \/ \E k \in 1..MaxFetches : FetchRequestsIncoming(k)
  \/ \E k \in 1..MaxFetches : FetchRequestsOutgoing(k)
  \/ \E k \in 1..MaxFetches : FetchRequestsLearnerProfiles(k)
  \/ \E k \in 1..MaxFetches : FetchRequestsTutorProfiles(k)

DashboardSpec == DashboardInit /\ [][DashboardNext]_vars

\* User 3, who has no profile yet, opens the wizard.
ProfileSetupInit ==
  /\ credits = StartingCredits
  /\ requests = <<>>
  /\ sessions = <<>>
  /\ ledger = <<>>
  /\ conversations = <<>>
  /\ messages = <<>>
  /\ calls = [s \in Slots |-> Idle]
  /\ nFailures = 0
  /\ accepted201 = {}
  /\ returned200 = <<>>
  /\ \E user \in Users : credits[user] = NoProfile /\ client = ProfileSetupPage(user)

\* The clicks on the wizard and the steps of its submission.
ProfileSetupNext ==
  \/ \E name \in Names : TypeName(name)
  \/ \E skillId \in AllSkills : toggleTeachSkill(skillId)
  \/ \E skillId \in AllSkills : toggleLearnSkill(skillId)
  \/ Back
  \/ Continue
  \/ handleSubmit
  \/ SubmitProfile
  \/ SubmitTeachSkills
  \/ SubmitLearnSkills

ProfileSetupSpec == ProfileSetupInit /\ [][ProfileSetupNext]_vars

\* The application opens at any path while the auth context is loading.
RouteInit ==
  /\ credits = StartingCredits
  /\ requests = <<>>
  /\ sessions = <<>>
  /\ ledger = <<>>
  /\ conversations = <<>>
  /\ messages = <<>>
  /\ calls = [s \in Slots |-> Idle]
  /\ nFailures = 0
  /\ accepted201 = {}
  /\ returned200 = <<>>
  /\ \E path \in Paths :
       client = RoutePage(path, [loading |-> TRUE, user |-> Nil, profile |-> FALSE])

\* Auth changes, navigation and redirects.
RouteNext ==
  \/ \E auth \in AuthStates : AuthChange(auth)
  \/ \E path \in Paths : GoTo(path)
  \/ FollowNavigate

RouteSpec == RouteInit /\ [][RouteNext]_vars

\* ------------------------------------------------------------------ claims
Done(s, kind) == IsDone(s) /\ calls[s].kind = kind

SessionsOf(r) == {i \in DOMAIN sessions : sessions[i].request_id = r}

LedgerOf(i) == {j \in DOMAIN ledger : ledger[j].session_id = i}

\* C1: every complete-session call that returns 200 on a human session took
\* exactly 1 credit off the learner's balance, put exactly 1 credit on the
\* tutor's, and added exactly two ledger rows for the session: the learner's
\* (-1, 'learning') and the tutor's (+1, 'teaching').  Stated for the runs
\* in which no store write has failed.
C1_HumanCompletionTransfersOneCredit ==
  \A s \in Slots :
    (/\ nFailures = 0
     /\ Done(s, "complete") /\ calls[s].status = 200 /\ ~calls[s].row.is_ai_session) =>
      LET c == calls[s] IN
      /\ c.debit = 0 - 1 * HalfCredits
      /\ c.paid = 1 * HalfCredits
      /\ Len(c.txs) = 2
      /\ ledger[c.txs[1]] = [user_id |-> c.row.learner_id, amount |-> 0 - 1 * HalfCredits,
                             type |-> "learning", session_id |-> c.arg]
      /\ ledger[c.txs[2]] = [user_id |-> c.row.tutor_id, amount |-> 1 * HalfCredits,
                             type |-> "teaching", session_id |-> c.arg]

\* C2: every complete-session call that returns 200 on an AI session took
\* exactly half a credit off the learner's balance, paid nobody, and added
\* exactly one ledger row for the session (-0.5, 'ai_session').  Stated for
\* the runs in which no store write has failed.
C2_AiCompletionDeductsHalfCredit ==
  \A s \in Slots :
    (/\ nFailures = 0
     /\ Done(s, "complete") /\ calls[s].status = 200 /\ calls[s].row.is_ai_session) =>
      LET c == calls[s] IN
      /\ c.debit = 0 - 1
      /\ c.paid = 0
      /\ Len(c.txs) = 1
      /\ ledger[c.txs[1]] = [user_id |-> c.row.learner_id, amount |-> 0 - 1,
                             type |-> "ai_session", session_id |-> c.arg]

\* C3: once an accept-request call has returned 201 for a request, every
\* later accept-request call of the tutor for that request returns 400
\* 'Request is no longer pending' and creates no session and no message.
C3_NoSecondAccept ==
  \A s \in Slots :
    (/\ Done(s, "accept") /\ calls[s].after201
     /\ calls[s].user \in Users /\ calls[s].time # ""
     /\ IsTutor(requests[calls[s].arg], calls[s].user)) =>
      /\ calls[s].status = 400
      /\ calls[s].error = "Request is no longer pending"
      /\ "sessions" \notin calls[s].writes
      /\ "messages" \notin calls[s].writes

\* C4: no learning request has its learner as its tutor, and a send-request
\* call whose tutor_id is the caller returns 400 and writes nothing.
C4_NoSelfRequest ==
  /\ \A i \in DOMAIN requests : requests[i].learner_id # requests[i].tutor_id
  /\ \A s \in Slots :
       (Done(s, "send") /\ calls[s].user \in Users /\ calls[s].arg = calls[s].user) =>
         calls[s].status = 400 /\ calls[s].writes = {}

\* C4 witness: a user's send-request call to themselves has returned.
C4_Witness ==
  \E s \in Slots :
    /\ Done(s, "send") /\ calls[s].user \in Users /\ calls[s].arg = calls[s].user
    /\ calls[s].error = "You cannot send a request to yourself"

\* C5: a send-request call whose credit check finds no profile or fewer than
\* 1 credit returns 400 'Insufficient credits to send a request' and writes
\* nothing; a call that wrote anything read at least 1 credit.
C5_InsufficientCreditsRejected ==
  \A s \in Slots :
    Done(s, "send") =>
      /\ (calls[s].saw = NoProfile \/ (calls[s].saw >= 0 /\ calls[s].saw < 1 * HalfCredits)) =>
           /\ calls[s].status = 400
           /\ calls[s].error = "Insufficient credits to send a request"
           /\ calls[s].writes = {}
      /\ calls[s].writes # {} => calls[s].saw >= 1 * HalfCredits

\* C5 witness: a caller whose profile holds half a credit has been turned away.
C5_Witness ==
  \E s \in Slots :
    /\ Done(s, "send") /\ calls[s].saw = 1
    /\ calls[s].error = "Insufficient credits to send a request"

\* C6: there is at most one conversation per unordered pair of users, and
\* every conversation is stored with participant_1 before participant_2.
C6_ConversationUnique ==
  /\ \A i \in DOMAIN conversations :
       conversations[i].participant_1 < conversations[i].participant_2
  /\ \A i, j \in DOMAIN conversations :
       {conversations[i].participant_1, conversations[i].participant_2}
         = {conversations[j].participant_1, conversations[j].participant_2}
       => i = j

\* C6 witness: requests went both ways between two users, and a call's
\* conversation insert was turned down, leaving their one conversation.
C6_Witness ==
  /\ Len(conversations) = 1
  /\ \E i, j \in DOMAIN requests :
       /\ requests[i].learner_id = requests[j].tutor_id
       /\ requests[i].tutor_id = requests[j].learner_id
  /\ \E s \in Slots :
       /\ IsDone(s) /\ calls[s].kind \in {"send", "startConversation"}
       /\ calls[s].status \in {0, 201}
       /\ "conversations" \notin calls[s].writes /\ "messages" \notin calls[s].writes

\* C7: at most one session refers to any learning request, whatever the
\* interleaving of the accept-request calls for it; stated for the runs in
\* which no store write has failed.
C7_AtMostOneSessionPerRequest ==
  nFailures = 0 => \A r \in DOMAIN requests : Cardinality(SessionsOf(r)) <= 1

\* C8: for every session at most one complete-session call returns 200, and
\* at most one debit row and at most one teaching row refer to it; stated
\* for the runs in which no store write has failed.
C8_CompletedOnce ==
  nFailures = 0 => \A i \in DOMAIN sessions :
    /\ returned200[i] <= 1
    /\ Cardinality({j \in LedgerOf(i) : ledger[j].amount < 0}) <= 1
    /\ Cardinality({j \in LedgerOf(i) : ledger[j].type = "teaching"}) <= 1

\* C9: no step of a send-request call changes a credit balance or the ledger.
C9_SendLeavesCreditsAlone ==
  [][(\E s \in Slots : SendStartUpTo(s, MaxAcceptRequests) \/ SendRest(s))
       => (credits' = credits /\ ledger' = ledger)]_vars

\* C9 witness: a send-request call has created its request and returned 201
\* while the ledger already holds rows and a balance has moved.
C9_Witness ==
  /\ \E s \in Slots : Done(s, "send") /\ calls[s].status = 201
  /\ ledger # <<>>
  /\ \E u \in Users : credits[u] \notin {NoProfile, InitialCredits, HalfCredits}

\* C10: an accept-request call by a user who is not the request's tutor and
\* a complete-session call by a user who is neither tutor nor learner of the
\* session return 403 and write nothing; a call that wrote anything was made
\* by the tutor, respectively a participant.
C10_OnlyAuthorizedPartiesWrite ==
  \A s \in Slots :
    /\ (/\ Done(s, "accept") /\ calls[s].user \in Users /\ calls[s].time # ""
        /\ calls[s].arg \in DOMAIN requests
        /\ requests[calls[s].arg].tutor_id # calls[s].user) =>
         calls[s].status = 403 /\ calls[s].writes = {}
    /\ (/\ Done(s, "complete") /\ calls[s].user \in Users
        /\ calls[s].arg \in DOMAIN sessions
        /\ sessions[calls[s].arg].tutor_id # calls[s].user
        /\ sessions[calls[s].arg].learner_id # calls[s].user) =>
         calls[s].status = 403 /\ calls[s].writes = {}

\* C10 witness: the learner of a pending request has tried to accept it.
C10_Witness ==
  \E s \in Slots :
    /\ Done(s, "accept") /\ calls[s].status = 403
    /\ calls[s].arg \in DOMAIN requests
    /\ requests[calls[s].arg].learner_id = calls[s].user
    /\ requests[calls[s].arg].status = "pending"

Handlers == {"send", "accept", "complete"}

\* C11: a call of one of the three handlers that carries no Authorization
\* header, or a credential that resolves to no user, returns 401 and writes
\* to no table; every status a handler returns is one of 200, 201, 400, 401,
\* 403, 404, 500.
C11_UnauthenticatedGets401 ==
  \A s \in Slots :
    (IsDone(s) /\ calls[s].kind \in Handlers) =>
      /\ calls[s].status \in {200, 201, 400, 401, 403, 404, 500}
      /\ calls[s].user \notin Users => (calls[s].status = 401 /\ calls[s].writes = {})

\* C11 witness: with a session in the store, a complete-session call whose
\* credential resolves to no user has been answered.
C11_Witness ==
  /\ sessions # <<>>
  /\ \E s \in Slots :
       /\ Done(s, "complete") /\ calls[s].user \notin Users
       /\ calls[s].error = "Unauthorized"

\* C12: the ledger only grows at its end, rows once written never change,
\* and only the ledger step of complete-session adds rows.
C12_LedgerAppendOnly ==
  [][/\ Len(ledger') >= Len(ledger)
     /\ SubSeq(ledger', 1, Len(ledger)) = ledger
     /\ ledger' # ledger =>
          \E s \in Slots : calls[s].kind = "complete" /\ calls[s].pc = "insertTransactions"]_vars

\* C12 witness: the ledger holds the rows of two completed sessions and a
\* send-request or accept-request call has just returned.
C12_Witness ==
  /\ \E i, j \in DOMAIN ledger : ledger[i].session_id # ledger[j].session_id
  /\ \E s \in Slots : IsDone(s) /\ calls[s].kind \in {"send", "accept"}

\* A complete-session call that has passed the balance check.
PastBalanceCheck(c) ==
  /\ c.kind = "complete"
  /\ \/ c.pc \in {"updateSession", "deduct", "readTutor", "creditTutor", "insertTransactions"}
     \/ c.pc = "done" /\ c.status \in {200, 500}

\* C13: the balance check of complete-session looks at the balance the call
\* read and at nothing else: every call past the check read a balance that
\* covers its cost, whatever the stored balance has become since.
C13_CheckIsOnTheBalanceRead ==
  \A s \in Slots :
    PastBalanceCheck(calls[s]) =>
      /\ calls[s].saw # NoProfile
      /\ calls[s].saw >= creditCost(calls[s].row.is_ai_session)

\* C13 witness: with no failed write, two sessions of one learner whose
\* starting balance pays for only one of them are both 'completed' and a call
\* has returned 200 for each.
C13_Witness ==
  /\ nFailures = 0
  /\ \E i, j \in DOMAIN sessions :
       /\ i # j
       /\ sessions[i].learner_id = sessions[j].learner_id
       /\ sessions[i].status = "completed" /\ sessions[j].status = "completed"
       /\ returned200[i] >= 1 /\ returned200[j] >= 1
       /\ LET start == StartingCredits[sessions[i].learner_id]
              cost_i == creditCost(sessions[i].is_ai_session)
              cost_j == creditCost(sessions[j].is_ai_session) IN
          /\ start >= cost_i /\ start >= cost_j
          /\ start < cost_i + cost_j

\* The sum of the amounts of a user's first n ledger rows.
RECURSIVE LedgerSum(_, _)
LedgerSum(u, n) ==
  IF n = 0 THEN 0
  ELSE LedgerSum(u, n - 1) + (IF ledger[n].user_id = u THEN ledger[n].amount ELSE 0)

\* What the ledger says a user's balance is.
LedgerBalance(u) == StartingCredits[u] + LedgerSum(u, Len(ledger))

\* C14: complete-session writes balances computed from what the call read
\* earlier (the learner's balance read minus the cost, the tutor's balance
\* read plus 1 credit), not from the stored balance, while its ledger rows
\* always carry the full amounts.
C14_BalanceWritesUseTheValueRead ==
  [][\A s \in Slots :
       LET c == calls[s] IN
       /\ (At(s, "complete", "deduct") /\ calls'[s] # c /\ "deduct" \notin calls'[s].lost) =>
            credits'[c.row.learner_id] = c.saw - creditCost(c.row.is_ai_session)
       /\ (At(s, "complete", "creditTutor") /\ calls'[s] # c
             /\ "creditTutor" \notin calls'[s].lost) =>
            credits'[c.row.tutor_id] = c.tsaw + TutorReward
       /\ (At(s, "complete", "insertTransactions") /\ calls'[s] # c
             /\ "insertTransactions" \notin calls'[s].lost) =>
            LedgerSum(c.row.learner_id, Len(ledger))' =
              LedgerSum(c.row.learner_id, Len(ledger)) - creditCost(c.row.is_ai_session)
                + (IF ~c.row.is_ai_session /\ c.row.tutor_id = c.row.learner_id
                   THEN TutorReward ELSE 0)]_vars

\* C14 witness: every write has succeeded, no call is in flight, and a
\* profile's balance is not its starting balance plus its ledger rows.
C14_Witness ==
  /\ nFailures = 0
  /\ \A s \in Slots : IsIdle(s)
  /\ \E u \in Users : credits[u] # NoProfile /\ credits[u] # LedgerBalance(u)

\* C15: a complete-session call whose learner deduction failed, and no later
\* write of which failed, leaves the session 'completed' and the learner's
\* balance untouched, still credits the tutor of a human session with 1
\* credit, still appends the session's ledger rows and returns 200.
C15_FailedDeductionIsNotRolledBack ==
  \A s \in Slots :
    (Done(s, "complete") /\ calls[s].lost = {"deduct"}) =>
      LET c == calls[s] IN
      /\ c.status = 200
      /\ sessions[c.arg].status = "completed"
      /\ c.debit = 0
      /\ c.paid = IF c.row.is_ai_session THEN 0 ELSE TutorReward
      /\ c.txs # <<>>
      /\ [i \in DOMAIN c.txs |-> ledger[c.txs[i]]] =
           IF c.row.is_ai_session THEN <<LearnerTransaction(c)>>
           ELSE <<LearnerTransaction(c), TutorTransaction(c)>>

\* C15 witness: a call on a human session has returned 200 after its
\* deduction failed; the learner still holds the starting balance.
C15_Witness ==
  \E s \in Slots :
    /\ Done(s, "complete") /\ calls[s].lost = {"deduct"}
    /\ ~calls[s].row.is_ai_session
    /\ calls[s].status = 200
    /\ credits[calls[s].row.learner_id] = StartingCredits[calls[s].row.learner_id]

\* C16: a complete-session call of a participant that reads the session as
\* 'completed' returns 400 'Session is already completed' and writes to no
\* table.
C16_CompletedSessionIsRejected ==
  \A s \in Slots :
    (/\ Done(s, "complete") /\ calls[s].user \in Users
     /\ calls[s].arg \in DOMAIN sessions
     /\ IsParticipant(sessions[calls[s].arg], calls[s].user)
     /\ calls[s].row.status = "completed") =>
      /\ calls[s].status = 400
      /\ calls[s].error = "Session is already completed"
      /\ calls[s].writes = {}

\* C16 witness: after a session was completed and paid for, a participant's
\* second call on it has been turned away.
C16_Witness ==
  \E s \in Slots :
    /\ Done(s, "complete") /\ calls[s].error = "Session is already completed"
    /\ LedgerOf(calls[s].arg) # {}
    /\ sessions[calls[s].arg].status = "completed"

\* C17: a send-request call of a user holding at least 1 credit that names a
\* tutor without a profile returns 404 'Tutor not found' and writes to no
\* table; no learning request names a tutor without a profile.
C17_TutorMustExist ==
  /\ \A i \in DOMAIN requests : credits[requests[i].tutor_id] # NoProfile
  /\ \A s \in Slots :
       (/\ Done(s, "send") /\ calls[s].user \in Users /\ calls[s].arg \in Users
        /\ calls[s].text # ""
        /\ calls[s].saw # NotRead /\ ~InsufficientToSend(calls[s].saw)
        /\ credits[calls[s].arg] = NoProfile) =>
         /\ calls[s].status = 404
         /\ calls[s].error = "Tutor not found"
         /\ calls[s].writes = {}

\* C17 witness: a request to a user without a profile has been answered while
\* the sender has a request to another user on record.
C17_Witness ==
  \E s \in Slots :
    /\ Done(s, "send") /\ calls[s].error = "Tutor not found"
    /\ \E i \in DOMAIN requests : requests[i].learner_id = calls[s].user

\* C18: an accept-request call that returns 201 has set the request's status
\* to 'accepted' and has inserted one session: 'scheduled', for that request,
\* with the request's tutor, learner and skill, the scheduled_at of the body
\* and the duration_minutes of the body, 60 when the body has none.
C18_AcceptCreatesTheSession ==
  \A s \in Slots :
    (Done(s, "accept") /\ calls[s].status = 201) =>
      LET c == calls[s]
          r == requests[c.arg] IN
      /\ r.status = "accepted"
      /\ c.made \in DOMAIN sessions
      /\ sessions[c.made] =
           [request_id |-> c.arg, tutor_id |-> r.tutor_id, learner_id |-> r.learner_id,
            skill_id |-> r.skill_id, scheduled_at |-> c.time,
            duration_minutes |-> IF c.given = Nil THEN 60 ELSE c.given,
            status |-> "scheduled", is_ai_session |-> FALSE]

\* C19: an accept-request call whose session insert failed after its status
\* update went through returns 500 'Failed to create session', has inserted
\* no session and leaves the request 'accepted' (with no session at all when
\* no earlier call was answered 201); an accept-request call of the tutor
\* that finds the request 'accepted' returns 400 'Request is no longer
\* pending' and writes nothing.
C19_FailedSessionInsertStrandsTheRequest ==
  \A s \in Slots :
    (/\ Done(s, "accept") /\ calls[s].user \in Users /\ calls[s].time # ""
     /\ calls[s].arg \in DOMAIN requests
     /\ IsTutor(requests[calls[s].arg], calls[s].user)) =>
      LET c == calls[s] IN
      /\ c.lost = {"insertSession"} =>
           /\ c.status = 500 /\ c.error = "Failed to create session"
           /\ requests[c.arg].status = "accepted"
           /\ c.made = Nil
           /\ ~c.after201 => SessionsOf(c.arg) = {}
      /\ (requests[c.arg].status = "accepted" /\ "learning_requests" \notin c.writes) =>
           /\ c.status = 400 /\ c.error = "Request is no longer pending"
           /\ c.writes = {}

\* C19 witness: the tutor's later call on a request left 'accepted' without a
\* session has been turned away.
C19_Witness ==
  \E s \in Slots :
    /\ Done(s, "accept") /\ calls[s].error = "Request is no longer pending"
    /\ requests[calls[s].arg].status = "accepted"
    /\ SessionsOf(calls[s].arg) = {}

\* C20: once a send-request call has returned 201, the conversation of the
\* caller and the tutor exists and holds a 'Learning Request' message of the
\* caller with the request's text.  Stated for the runs in which no store
\* write has failed.
C20_RequestMessageIsDelivered ==
  \A s \in Slots :
    (nFailures = 0 /\ Done(s, "send") /\ calls[s].status = 201) =>
      \E i \in MatchingConvos(sortedIds(calls[s].user, calls[s].arg)) :
        \E m \in DOMAIN messages :
          messages[m] = [conversation_id |-> i, sender_id |-> calls[s].user,
                         content |-> <<"Learning Request", calls[s].text>>,
                         read_at |-> Nil]

\* No call is in flight: every call made so far has returned.
Quiet == \A s \in Slots : IsIdle(s) \/ IsDone(s)

\* C23: when calls run one at a time and no store write has failed, after
\* each call every existing profile's balance is its starting balance plus the
\* amounts of the user's ledger rows.
C23_SequentialBalancesMatchTheLedger ==
  (nFailures = 0 /\ Quiet) =>
    \A u \in Users : credits[u] # NoProfile => credits[u] = LedgerBalance(u)

\* C23 witness: a human session and an AI session have been completed and
\* paid for, one call after the other, without a failed write.
C23_Witness ==
  /\ nFailures = 0 /\ Quiet
  /\ \E i, j \in DOMAIN sessions :
       /\ ~sessions[i].is_ai_session /\ sessions[j].is_ai_session
       /\ returned200[i] = 1 /\ returned200[j] = 1
  /\ \E u \in Users : credits[u] # NoProfile /\ credits[u] # StartingCredits[u]

\* C24: no profile's balance is ever negative, under any interleaving of the
\* calls and whichever store writes fail.
C24_BalancesNeverNegative ==
  \A u \in Users : credits[u] # NoProfile => credits[u] >= 0

\* C24 witness: two calls have returned 200 for sessions of one learner whose
\* starting balance pays for only one of them, and the learner's balance is 0.
C24_Witness ==
  \E i, j \in DOMAIN sessions :
    /\ i # j
    /\ sessions[i].learner_id = sessions[j].learner_id
    /\ returned200[i] >= 1 /\ returned200[j] >= 1
    /\ StartingCredits[sessions[i].learner_id] <
         creditCost(sessions[i].is_ai_session) + creditCost(sessions[j].is_ai_session)
    /\ credits[sessions[i].learner_id] = 0

\* C25: a complete-session call that reads a learner balance below the
\* session's cost (1 credit human, half a credit AI) returns 400
\* 'Insufficient credits' and writes to no table: the session's status, the
\* balances and the ledger stay as they were.
C25_InsufficientCreditsIsRejected ==
  \A s \in Slots :
    (/\ Done(s, "complete")
     /\ calls[s].saw # NotRead /\ calls[s].saw # NoProfile
     /\ calls[s].saw < (IF calls[s].row.is_ai_session THEN 1 ELSE 1 * HalfCredits)) =>
      /\ calls[s].status = 400
      /\ calls[s].error = "Insufficient credits"
      /\ calls[s].writes = {}
      /\ sessions[calls[s].arg].status = calls[s].row.status

\* C25 witness: a call on a human session whose learner holds half a credit
\* has been turned away; the session is still 'scheduled' and has no ledger
\* row.
C25_Witness ==
  \E s \in Slots :
    /\ Done(s, "complete") /\ calls[s].error = "Insufficient credits"
    /\ ~calls[s].row.is_ai_session
    /\ credits[calls[s].row.learner_id] = 1
    /\ sessions[calls[s].arg].status = "scheduled"
    /\ LedgerOf(calls[s].arg) = {}

\* C26: a 'cancelled' session is never moved to 'completed' and gets no
\* credit transfer and no ledger row: no step takes a session from
\* 'cancelled' to 'completed' or adds a ledger row for a 'cancelled' session,
\* and every complete-session call that returns 200 read its session as
\* 'scheduled' or 'in_progress'.
C26_CancelledSessionIsNeverCompleted ==
  /\ [](\A s \in Slots :
          (Done(s, "complete") /\ calls[s].status = 200) =>
            calls[s].row.status \in {"scheduled", "in_progress"})
  /\ [][\A i \in DOMAIN sessions :
          sessions[i].status = "cancelled" =>
            /\ sessions'[i].status # "completed"
            /\ LedgerOf(i)' = LedgerOf(i)]_vars

\* C21: a message is mutated only to set its read marker.  No step removes a
\* message or changes its content, sender or conversation; a read_at that is
\* set stays as it is; and read_at is set only by the update of a
\* fetchMessages, on a message of the conversation that fetchMessages was
\* started for, sent by somebody else than the page's user.
C21_MessagesOnlyGetReadMarker ==
  [][\A i \in DOMAIN messages :
       /\ i \in DOMAIN messages'
       /\ messages'[i].content = messages[i].content
       /\ messages'[i].sender_id = messages[i].sender_id
       /\ messages'[i].conversation_id = messages[i].conversation_id
       /\ messages[i].read_at # Nil => messages'[i].read_at = messages[i].read_at
       /\ messages'[i].read_at # messages[i].read_at =>
            /\ OnMessages
            /\ messages[i].sender_id # client.user
            /\ \E k \in DOMAIN client.fetches :
                 /\ client.fetches[k].pc = "update"
                 /\ client.fetches[k].conversationId = messages[i].conversation_id]_vars

\* C21 witness: a message was marked read by the first fetchMessages; the
\* user left the conversation and opened it again, the second fetchMessages
\* has run its update, and the message still carries the first read time.
C21_Witness ==
  /\ OnMessages /\ nFailures = 0
  /\ client.opened = 3 /\ client.now = 3 /\ client.fetches = <<>>
  /\ \E i \in DOMAIN messages :
       /\ messages[i].read_at = 1
       /\ messages[i].conversation_id = client.conversationId

\* C29: every message in the list of useMessages belongs to the conversation
\* the hook is given.
C29_ListShowsTheSelectedConversation ==
  OnMessages =>
    \A n \in DOMAIN client.messages :
      client.messages[n].conversation_id = client.conversationId

\* C30: no message id appears twice in the list of useMessages.
C30_ListHasNoDuplicates ==
  OnMessages =>
    \A m, n \in DOMAIN client.messages :
      client.messages[m].id = client.messages[n].id => m = n

\* C22: once every change of learning_requests has been delivered to the
\* subscription of useRequests and every fetchRequests call has ended,
\* incomingRequests is exactly the 'pending' requests of the store whose tutor
\* is the user, and outgoingRequests exactly those whose learner is the user.
C22_ViewsSettleOnTheStore ==
  (OnDashboard /\ client.delivered = Changes /\ client.fetches = <<>>) =>
    /\ client.incomingRequests = selectIncoming(client.user)
    /\ client.outgoingRequests = selectOutgoing(client.user)

\* C28: the junction rows the wizard inserts never name one skill as both a
\* teach skill and a learn skill of the user.
C28_LearnSkillsExcludeTeachSkills ==
  client.page = "profile-setup" =>
    client.user_teach_skills \cap client.user_learn_skills = {}

\* C27: on a protected route the children are rendered exactly when auth is
\* not loading, a user is present and a profile is present or the route does
\* not require one; without a user the route redirects to /auth, with a user
\* but without a required profile to /profile-setup, and while loading it
\* renders neither children nor a redirect.
C27_ProtectedRouteGuards ==
  (OnRoute /\ client.path \in Protected) =>
    LET a == client.auth
        needsProfile == client.path # "/profile-setup" IN
    /\ client.rendered = "children" <=>
         (~a.loading /\ a.user # Nil /\ (a.profile \/ ~needsProfile))
    /\ (~a.loading /\ a.user = Nil) => client.rendered = "/auth"
    /\ (~a.loading /\ a.user # Nil /\ ~a.profile /\ needsProfile) =>
         client.rendered = "/profile-setup"
    /\ a.loading => client.rendered \notin {"children", "/auth", "/profile-setup"}

\* C27 witness: a user without a profile was redirected from a route that
\* requires one and sees the children of /profile-setup.
C27_Witness ==
  /\ OnRoute
  /\ client.path = "/profile-setup"
  /\ client.auth.user # Nil /\ ~client.auth.profile /\ ~client.auth.loading
  /\ client.rendered = "children"
====
